---- MODULE Spec2Model ----
(***************************************************************************)
(* Model of scripts/ai-review.py: the size-bounded chunking and map-reduce *)
(* review pipeline (collect_files, split_into_chunks, the provider         *)
(* gateway ai_call with its SDK and REST transports, review_single,        *)
(* review_chunked and main), and of scripts/sync-workflows.py: sync_one    *)
(* with get_remote_file, put_remote_file and content_fingerprint.          *)
(*                                                                         *)
(* Texts are modelled by their structure (which files, which partial       *)
(* reviews, which diff) together with their length; file contents by their *)
(* UTF-8 byte length.                                                      *)
(***************************************************************************)
EXTENDS Integers, Sequences, FiniteSets, TLC

VARIABLES
    pc,              \* control position of the process
    mode,            \* args.mode
    diff_file,       \* args.diff_file
    provider,        \* args.provider
    arg_cred,        \* --api-key (gemini) / --gcp-project (claude)
    env_cred,        \* GEMINI_API_KEY (gemini) / GCP_PROJECT_ID (claude)
    sdk,             \* TRUE iff the provider's client library can be imported
    diff,            \* content read from the diff file
    files,           \* the corpus: ordered mapping path -> content
    collected,       \* collect_files has been invoked
    chunks,          \* review_chunked: result of split_into_chunks
    split_invoked,   \* split_into_chunks has been invoked
    idx,             \* review_chunked: loop variable i (1-based)
    partial_reviews, \* review_chunked: accumulator
    calls,           \* every ai_call invocation so far, with its outcome
    net,             \* every request handed to a transport so far
    report,          \* the final report
    errors,          \* one-line diagnostics of sys.exit(msg)
    exitcode,        \* process exit status, -1 while running
    cands,           \* collect_files: the candidate files, in walk order
    cpos,            \* collect_files: how many candidates have been processed
    ctotal,          \* collect_files: total
    remote0,         \* sync_one: the remote workflow file when sync_one starts
    remote,          \* sync_one: the remote workflow file now
    template,        \* sync_one: content
    force,           \* sync_one: force
    puts,            \* sync_one: every PUT issued so far
    status           \* sync_one: the status returned, "" while running

\* the state of collect_files run on its own
walk_vars == <<cands, cpos, ctotal>>

\* the state of sync_one
sync_vars == <<remote0, remote, template, force, puts, status>>

\* the state of a review, its control position apart
review_vars == <<mode, diff_file, provider, arg_cred, env_cred, sdk, diff,
                 files, collected, chunks, split_invoked, idx,
                 partial_reviews, calls, net, report, errors, exitcode>>

vars == <<pc, review_vars, walk_vars, sync_vars>>

(***************************************************************************)
(* Configuration                                                           *)
(***************************************************************************)
MAX_FILE_SIZE == 50000
CHUNK_SIZE == 800000
MAX_TOTAL_SIZE == 4000000

(***************************************************************************)
(* Bounds of the model                                                     *)
(***************************************************************************)
\* longest corpus handed directly to split_into_chunks
MaxFiles == 3
\* longest corpus handed directly to review_chunked
MaxChunkedFiles == 3
\* most candidate files in the project directory walked by main
MaxDiskFiles == 17
\* longest diff file content, in characters
MaxDiffLen == 4
\* length of a text generated by the model backend
ReviewLen == 2000
\* the backend's context ceiling, in characters
ContextCeiling == 1000000

\* Python's None
None == "<None>"

\* truthiness of an optional string (None and "" are falsy)
Truthy(s) == s # None /\ s # ""

RECURSIVE SumSizes(_)
\* sum(len(c.encode('utf-8')) for c in files.values())
SumSizes(fs) ==
    IF fs = <<>> THEN 0 ELSE fs[1].size + SumSizes(Tail(fs))

RECURSIVE Flatten(_)
\* concatenation of a sequence of sequences, in order
Flatten(ss) ==
    IF ss = <<>> THEN <<>> ELSE ss[1] \o Flatten(Tail(ss))

(***************************************************************************)
(* split_into_chunks                                                       *)
(***************************************************************************)
\* a plausible slip: the size of the incoming file is left out of the test
ShouldCloseNoFileSize(current_size, file_size, current_chunk) ==
    current_size > CHUNK_SIZE /\ current_chunk # <<>>

\* a plausible slip: the test that the open chunk holds something is lost
ShouldCloseEvenEmpty(current_size, file_size, current_chunk) ==
    current_size + file_size > CHUNK_SIZE

\* if current_size + file_size > CHUNK_SIZE and current_chunk:
ShouldClose(current_size, file_size, current_chunk) ==
    current_size + file_size > CHUNK_SIZE /\ current_chunk # <<>>

RECURSIVE SplitLoop(_, _, _, _)
\* the for loop of split_into_chunks over files.items(), from its state
\* (chunks, current_chunk, current_size); returns the state after the loop
SplitLoop(fs, chs, current_chunk, current_size) ==
    IF fs = <<>>
    THEN [chunks |-> chs, current_chunk |-> current_chunk]
    ELSE LET file_size == fs[1].size
         IN  IF ShouldClose(current_size, file_size, current_chunk)
             THEN SplitLoop(Tail(fs), Append(chs, current_chunk),
                            <<fs[1]>>, file_size)
             ELSE SplitLoop(Tail(fs), chs,
                            Append(current_chunk, fs[1]),
                            current_size + file_size)

\* a plausible slip: the trailing "if current_chunk: chunks.append" is lost
FlushNever(st) == st.chunks

\* if current_chunk: chunks.append(current_chunk); return chunks
Flush(st) ==
    IF st.current_chunk # <<>>
    THEN Append(st.chunks, st.current_chunk)
    ELSE st.chunks

split_into_chunks(fs) == Flush(SplitLoop(fs, <<>>, <<>>, 0))

(***************************************************************************)
(* collect_files                                                           *)
(***************************************************************************)
\* A candidate is a file met by os.walk, in walk order:
\*   path      its relative path
\*   code      its suffix is in CODE_EXTENSIONS
\*   sz        os.path.getsize, or -1 when getsize raises OSError
\*   readable  open/read does not raise OSError
\*   clen      byte length of the text read, re-encoded as UTF-8
\* a plausible slip: the aggregate ceiling is not tested
SizeAllowedPerFileOnly(total, sz) ==
    ~(sz > MAX_FILE_SIZE)

\* if sz > MAX_FILE_SIZE or total + sz > MAX_TOTAL_SIZE: continue
SizeAllowed(total, sz) ==
    ~(sz > MAX_FILE_SIZE \/ total + sz > MAX_TOTAL_SIZE)

RECURSIVE CollectLoop(_, _, _)
\* the loop of collect_files from its state (files, total)
CollectLoop(cs, fs, total) ==
    IF cs = <<>> THEN [files |-> fs, total |-> total]
    ELSE LET c == cs[1]
         IN  IF ~c.code \/ c.sz < 0 \/ ~SizeAllowed(total, c.sz) \/ ~c.readable
             THEN CollectLoop(Tail(cs), fs, total)
             ELSE CollectLoop(Tail(cs),
                              Append(fs, [path |-> c.path, size |-> c.clen]),
                              total + c.sz)

collect_files(project_dir) == CollectLoop(project_dir, <<>>, 0).files

(***************************************************************************)
(* Prompts and texts                                                       *)
(***************************************************************************)
SYSTEM_FULL == [name |-> "SYSTEM_FULL", chunk_num |-> 0, total_chunks |-> 0]

SYSTEM_CHUNK(i, total) ==
    [name |-> "SYSTEM_CHUNK", chunk_num |-> i, total_chunks |-> total]

SYSTEM_MERGE(total) ==
    [name |-> "SYSTEM_MERGE", chunk_num |-> 0, total_chunks |-> total]

SYSTEM_PR == [name |-> "SYSTEM_PR", chunk_num |-> 0, total_chunks |-> 0]

\* A text is [kind, files, sections, diff]: what it was assembled from.
\* review_single: build_code_context(files) + "\n\n---\nВыполни code review."
SingleText(fs) ==
    [kind |-> "single", files |-> fs, sections |-> <<>>, diff |-> <<>>]

\* review_chunked: build_code_context(chunk_files)
\*                 + "\n\n---\nВыполни анализ этой части кодовой базы."
ChunkText(fs) ==
    [kind |-> "chunk", files |-> fs, sections |-> <<>>, diff |-> <<>>]

\* a plausible slip: the header carries enumerate's zero-based index
MergeTextZeroBased(reviews, total) ==
    [kind |-> "merge", files |-> <<>>,
     sections |-> [i \in 1..Len(reviews) |->
                     [num |-> i - 1, total |-> total,
                      review |-> reviews[i]]],
     diff |-> <<>>]

\* "## Partial Review i+1/total\n\n{review}" for i, review in
\* enumerate(partial_reviews), joined, + trailing instruction
MergeText(reviews, total) ==
    [kind |-> "merge", files |-> <<>>,
     sections |-> [i \in 1..Len(reviews) |->
                     [num |-> (i - 1) + 1, total |-> total,
                      review |-> reviews[i]]],
     diff |-> <<>>]

\* context + "\n\n---\nВыполни review PR."
DiffText(content) ==
    [kind |-> "diff", files |-> <<>>, sections |-> <<>>, diff |-> content]

RECURSIVE SumLens(_)
SumLens(sections) ==
    IF sections = <<>> THEN 0
    ELSE 23 + sections[1].review.len + SumLens(Tail(sections))

\* len(build_code_context(files)): "### File: {path}\n```\n{content}\n```"
\* per file (paths of 6 characters), joined by "\n\n"
ContextLen(fs) ==
    IF fs = <<>> THEN 0
    ELSE SumSizes(fs) + 25 * Len(fs) + 2 * (Len(fs) - 1)

\* number of characters of a text (contents taken as one byte a character)
TextLen(t) ==
    CASE t.kind = "single" -> ContextLen(t.files) + 26
      [] t.kind = "chunk" -> ContextLen(t.files) + 45
      [] t.kind = "merge" ->
            SumLens(t.sections)
            + (IF t.sections = <<>> THEN 0 ELSE 7 * (Len(t.sections) - 1))
            + 58
      [] t.kind = "diff" -> Len(t.diff) + 24

\* str.strip(): leading and trailing whitespace removed
IsSpace(ch) == ch \in {" ", "\n"}

RECURSIVE LStrip(_)
LStrip(s) ==
    IF s # <<>> /\ IsSpace(s[1]) THEN LStrip(Tail(s)) ELSE s

RECURSIVE RStrip(_)
RStrip(s) ==
    IF s # <<>> /\ IsSpace(s[Len(s)])
    THEN RStrip(SubSeq(s, 1, Len(s) - 1))
    ELSE s

\* a plausible slip: only blanks are stripped, not newlines
StripBlanksOnly(s) ==
    LET RECURSIVE L(_)
        L(x) == IF x # <<>> /\ x[1] = " " THEN L(Tail(x)) ELSE x
        RECURSIVE R(_)
        R(x) == IF x # <<>> /\ x[Len(x)] = " "
                THEN R(SubSeq(x, 1, Len(x) - 1)) ELSE x
    IN  R(L(s))

strip(s) == RStrip(LStrip(s))

(***************************************************************************)
(* Provider gateway                                                        *)
(***************************************************************************)
Providers == {"gemini", "claude"}

\* how the backend answers one request
Outcomes == {"ok", "http_error", "network_error", "timeout", "malformed"}

\* what a call gives back: a text (failure-marked or not) or an exception
Returned(failed, detail, len) ==
    [raised |-> FALSE, failed |-> failed, detail |-> detail, len |-> len]

Raised(detail) ==
    [raised |-> TRUE, failed |-> TRUE, detail |-> detail, len |-> 0]

\* call_gemini_rest / call_claude_rest once the request is sent:
\*   return body[...]                          on a well-formed answer
\*   except HTTPError: return "... failed: HTTP {code}"
\*   except Exception: return "... failed: {exc}"
\* (URLError, socket.timeout, and the ValueError / KeyError / IndexError /
\* TypeError of a malformed body are all Exception; the error body read in
\* the HTTPError handler is taken to decode)
RestResult(outcome) ==
    CASE outcome = "ok" -> Returned(FALSE, "", ReviewLen)
      [] outcome = "http_error" -> Returned(TRUE, "HTTP", 32)
      [] OTHER -> Returned(TRUE, "Exception", 24 + 20)

\* call_gemini / call_claude with the client library: only ImportError is
\* caught, so every other exception of the client leaves the function
SdkResult(outcome) ==
    IF outcome = "ok" THEN Returned(FALSE, "", ReviewLen) ELSE Raised(outcome)

\* call_claude_rest: "Failed to get GCP access token: {exc}"
TokenFailure == Returned(TRUE, "token", 34 + 20)

\* "Нет изменений для ревью."
CANNED == Returned(FALSE, "canned", 26)

NoReport == Returned(FALSE, "none", 0)

\* kwargs.get("api_key") or os.environ.get("GEMINI_API_KEY")
\* kwargs.get("gcp_project") or os.environ.get("GCP_PROJECT_ID")
Credential(arg, env) ==
    IF Truthy(arg) THEN arg ELSE env

(***************************************************************************)
(* ai_call                                                                 *)
(***************************************************************************)
Pending == [raised |-> FALSE, failed |-> FALSE, detail |-> "pending", len |-> 0]

\* ai_call(system, user_text, provider, model, **kwargs) is entered from
\* `site`; the call is recorded with its outcome still open
Invoke(system, user_text, site) ==
    /\ calls' = Append(calls, [site |-> site, system |-> system,
                               user_text |-> user_text, result |-> Pending])
    /\ pc' = "ai_call"

\* the outcome of the call that is open
Close(result) ==
    calls' = [calls EXCEPT ![Len(calls)].result = result]

Site == calls[Len(calls)].site

\* the statement after the call, at each call site
Return(result) ==
    /\ Close(result)
    /\ IF Site = "chunk"
       THEN /\ partial_reviews' = Append(partial_reviews, result)
            /\ idx' = idx + 1
            /\ pc' = "chunk_loop"
            /\ UNCHANGED <<report, exitcode>>
       ELSE /\ report' = result
            /\ pc' = "done"
            /\ exitcode' = 0
            /\ UNCHANGED <<partial_reviews, idx>>

\* an exception nobody catches: traceback, exit status 1
Crash(result) ==
    /\ Close(result)
    /\ pc' = "crashed"
    /\ exitcode' = 1
    /\ UNCHANGED <<partial_reviews, idx, report>>

\* a plausible slip: the credential test is missing
MissingNever(cred) == FALSE

\* if not api_key: / if not project_id:
Missing(cred) == ~Truthy(cred)

\* the request handed to a transport: the credential in use and the text sent
Request(transport) ==
    [transport |-> transport, provider |-> provider,
     cred |-> Credential(arg_cred, env_cred),
     system |-> calls[Len(calls)].system,
     user_text |-> calls[Len(calls)].user_text,
     sent |-> calls[Len(calls)].user_text]

\* sys.exit("Error: GEMINI_API_KEY not set") / ("Error: GCP_PROJECT_ID not set")
AiCallExit ==
    /\ pc = "ai_call"
    /\ Missing(Credential(arg_cred, env_cred))
    /\ errors' = Append(errors, IF provider = "gemini"
                                THEN "Error: GEMINI_API_KEY not set"
                                ELSE "Error: GCP_PROJECT_ID not set")
    /\ Close([raised |-> TRUE, failed |-> TRUE, detail |-> "SystemExit", len |-> 0])
    /\ pc' = "exit"
    /\ exitcode' = 1
    /\ UNCHANGED <<walk_vars, sync_vars, mode, diff_file, provider, arg_cred, env_cred, sdk, diff,
                   files, collected, chunks, split_invoked, idx,
                   partial_reviews, net, report>>

\* call_gemini / call_claude: the client library is importable
CallSdk ==
    /\ pc = "ai_call"
    /\ ~Missing(Credential(arg_cred, env_cred))
    /\ sdk
    /\ net' = Append(net, Request("sdk"))
    /\ pc' = "in_flight"
    /\ UNCHANGED <<walk_vars, sync_vars, mode, diff_file, provider, arg_cred, env_cred, sdk, diff,
                   files, collected, chunks, split_invoked, idx,
                   partial_reviews, calls, report, errors, exitcode>>

\* except ImportError: call_gemini_rest / call_claude_rest sends the request
\* (call_claude_rest after gcloud printed an access token)
CallRest ==
    /\ pc = "ai_call"
    /\ ~Missing(Credential(arg_cred, env_cred))
    /\ ~sdk
    /\ net' = Append(net, Request("rest"))
    /\ pc' = "in_flight"
    /\ UNCHANGED <<walk_vars, sync_vars, mode, diff_file, provider, arg_cred, env_cred, sdk, diff,
                   files, collected, chunks, split_invoked, idx,
                   partial_reviews, calls, report, errors, exitcode>>

\* call_claude_rest: gcloud fails; the failure text is returned, nothing sent
CallRestNoToken ==
    /\ pc = "ai_call"
    /\ ~Missing(Credential(arg_cred, env_cred))
    /\ ~sdk
    /\ provider = "claude"
    /\ Return(TokenFailure)
    /\ UNCHANGED <<walk_vars, sync_vars, mode, diff_file, provider, arg_cred, env_cred, sdk, diff,
                   files, collected, chunks, split_invoked, net, errors>>

\* what the transport in use makes of the backend's answer
TransportResult(transport, outcome) ==
    IF transport = "sdk" THEN SdkResult(outcome) ELSE RestResult(outcome)

\* the request in flight is answered
Respond ==
    /\ pc = "in_flight"
    /\ \E outcome \in Outcomes :
         LET r == TransportResult(net[Len(net)].transport, outcome)
         IN  IF r.raised THEN Crash(r) ELSE Return(r)
    /\ UNCHANGED <<walk_vars, sync_vars, mode, diff_file, provider, arg_cred, env_cred, sdk, diff,
                   files, collected, chunks, split_invoked, net, errors>>

(***************************************************************************)
(* review_chunked                                                          *)
(***************************************************************************)
\* chunks = split_into_chunks(files); total = len(chunks); partial_reviews = []
ReviewChunkedStart ==
    /\ pc = "review_chunked"
    /\ chunks' = split_into_chunks(files)
    /\ split_invoked' = TRUE
    /\ partial_reviews' = <<>>
    /\ idx' = 1
    /\ pc' = "chunk_loop"
    /\ UNCHANGED <<walk_vars, sync_vars, mode, diff_file, provider, arg_cred, env_cred, sdk, diff,
                   files, collected, calls, net, report, errors, exitcode>>

\* a plausible slip: the loop stops one chunk early
LoopDoneEarly(i, total) == i >= total

\* for i, chunk_files in enumerate(chunks, 1): is exhausted
LoopDone(i, total) == i > total

\* the loop body up to its ai_call, for chunk i of total
ChunkCall ==
    /\ pc = "chunk_loop"
    /\ ~LoopDone(idx, Len(chunks))
    /\ Invoke(SYSTEM_CHUNK(idx, Len(chunks)), ChunkText(chunks[idx]), "chunk")
    /\ UNCHANGED <<walk_vars, sync_vars, mode, diff_file, provider, arg_cred, env_cred, sdk, diff,
                   files, collected, chunks, split_invoked, idx,
                   partial_reviews, net, report, errors, exitcode>>

\* after the loop: the merge input is assembled and handed to ai_call
MergeCall ==
    /\ pc = "chunk_loop"
    /\ LoopDone(idx, Len(chunks))
    /\ Invoke(SYSTEM_MERGE(Len(chunks)),
              MergeText(partial_reviews, Len(chunks)), "merge")
    /\ UNCHANGED <<walk_vars, sync_vars, mode, diff_file, provider, arg_cred, env_cred, sdk, diff,
                   files, collected, chunks, split_invoked, idx,
                   partial_reviews, net, report, errors, exitcode>>

(***************************************************************************)
(* main                                                                    *)
(***************************************************************************)
\* the characters a diff is made of: blank, newline, anything else
DiffChars == {" ", "\n", "x"}

DiffContents == UNION {[1..n -> DiffChars] : n \in 0..MaxDiffLen}

\* a candidate file of MAX_FILE_SIZE bytes that the collector accepts
PlainFile == [code |-> TRUE, sz |-> MAX_FILE_SIZE, readable |-> TRUE,
              clen |-> MAX_FILE_SIZE]

\* the other candidate files that are tried
OddFiles ==
    { [code |-> FALSE, sz |-> 1, readable |-> TRUE, clen |-> 1],
      [code |-> TRUE, sz |-> 0, readable |-> TRUE, clen |-> 0],
      [code |-> TRUE, sz |-> 1, readable |-> TRUE, clen |-> 1],
      [code |-> TRUE, sz |-> MAX_FILE_SIZE, readable |-> TRUE,
       clen |-> MAX_FILE_SIZE - 1],
      [code |-> TRUE, sz |-> MAX_FILE_SIZE + 1, readable |-> TRUE,
       clen |-> MAX_FILE_SIZE + 1],
      [code |-> TRUE, sz |-> -1, readable |-> FALSE, clen |-> 0],
      [code |-> TRUE, sz |-> 1, readable |-> FALSE, clen |-> 0] }

WithPath(f, p) ==
    [path |-> p, code |-> f.code, sz |-> f.sz, readable |-> f.readable,
     clen |-> f.clen]

\* the project directories tried: up to MaxDiskFiles candidate files, all
\* plain but at most one, which is the first or the last
DiskTrees ==
    { [i \in 1..n |-> WithPath(IF i = k THEN odd ELSE PlainFile, i)] :
        n \in 0..MaxDiskFiles, k \in {0, 1, MaxDiskFiles + 1}, odd \in OddFiles }
    \cup
    { [i \in 1..n |-> WithPath(IF i = n THEN odd ELSE PlainFile, i)] :
        n \in 1..MaxDiskFiles, odd \in OddFiles }

\* if args.mode == "pr" and args.diff_file:
IsPR(m, df) == m = "pr" /\ Truthy(df)

\* a plausible slip: the test is made on the raw content
IsBlankRaw(content) == content = <<>>

\* if not context.strip():
IsBlank(content) == strip(content) = <<>>

\* a plausible slip: < for <=
FitsOneChunkStrict(total_size) == total_size < CHUNK_SIZE

\* if total_size <= CHUNK_SIZE:
FitsOneChunk(total_size) == total_size <= CHUNK_SIZE

\* PR mode: open(args.diff_file) raises
MainPRUnreadable ==
    /\ pc = "main"
    /\ IsPR(mode, diff_file)
    /\ pc' = "crashed"
    /\ exitcode' = 1
    /\ UNCHANGED <<walk_vars, sync_vars, mode, diff_file, provider, arg_cred, env_cred, sdk, diff,
                   files, collected, chunks, split_invoked, idx,
                   partial_reviews, calls, net, report, errors>>

\* PR mode, nothing but whitespace in the diff: the canned report
MainPREmpty ==
    /\ pc = "main"
    /\ IsPR(mode, diff_file)
    /\ \E content \in DiffContents :
         /\ IsBlank(content)
         /\ diff' = content
    /\ report' = CANNED
    /\ pc' = "done"
    /\ exitcode' = 0
    /\ UNCHANGED <<walk_vars, sync_vars, mode, diff_file, provider, arg_cred, env_cred, sdk,
                   files, collected, chunks, split_invoked, idx,
                   partial_reviews, calls, net, errors>>

\* PR mode: ai_call(SYSTEM_PR, context + "...", ...)
MainPRReview ==
    /\ pc = "main"
    /\ IsPR(mode, diff_file)
    /\ \E content \in DiffContents :
         /\ ~IsBlank(content)
         /\ diff' = content
         /\ Invoke(SYSTEM_PR, DiffText(content), "pr")
    /\ UNCHANGED <<walk_vars, sync_vars, mode, diff_file, provider, arg_cred, env_cred, sdk,
                   files, collected, chunks, split_invoked, idx,
                   partial_reviews, net, report, errors, exitcode>>

\* full review mode: sys.exit("No source files found.")
MainNoFiles ==
    /\ pc = "main"
    /\ ~IsPR(mode, diff_file)
    /\ \E project_dir \in DiskTrees :
         /\ collect_files(project_dir) = <<>>
         /\ files' = collect_files(project_dir)
    /\ collected' = TRUE
    /\ errors' = Append(errors, "No source files found.")
    /\ pc' = "exit"
    /\ exitcode' = 1
    /\ UNCHANGED <<walk_vars, sync_vars, mode, diff_file, provider, arg_cred, env_cred, sdk, diff,
                   chunks, split_invoked, idx, partial_reviews, calls, net,
                   report>>

\* full review mode: review_single(files, 'full', ...) up to its ai_call
MainSingle ==
    /\ pc = "main"
    /\ ~IsPR(mode, diff_file)
    /\ \E project_dir \in DiskTrees :
         LET fs == collect_files(project_dir)
         IN  /\ fs # <<>>
             /\ FitsOneChunk(SumSizes(fs))
             /\ files' = fs
             /\ Invoke(SYSTEM_FULL, SingleText(fs), "single")
    /\ collected' = TRUE
    /\ UNCHANGED <<walk_vars, sync_vars, mode, diff_file, provider, arg_cred, env_cred, sdk, diff,
                   chunks, split_invoked, idx, partial_reviews, net, report,
                   errors, exitcode>>

\* full review mode: review_chunked(files, ...) is entered
MainChunked ==
    /\ pc = "main"
    /\ ~IsPR(mode, diff_file)
    /\ \E project_dir \in DiskTrees :
         LET fs == collect_files(project_dir)
         IN  /\ fs # <<>>
             /\ ~FitsOneChunk(SumSizes(fs))
             /\ files' = fs
    /\ collected' = TRUE
    /\ pc' = "review_chunked"
    /\ UNCHANGED <<walk_vars, sync_vars, mode, diff_file, provider, arg_cred, env_cred, sdk, diff,
                   chunks, split_invoked, idx, partial_reviews, calls, net,
                   report, errors, exitcode>>

(***************************************************************************)
(* Specifications                                                          *)
(***************************************************************************)
\* the value of diff before a diff file has been read
Unread == <<None>>

\* a remote path where there is no file (GET answers 404)
Absent == <<None>>

\* what is not an input, before anything has run
Fresh ==
    /\ diff = Unread
    /\ collected = FALSE
    /\ chunks = <<>>
    /\ split_invoked = FALSE
    /\ idx = 0
    /\ partial_reviews = <<>>
    /\ calls = <<>>
    /\ net = <<>>
    /\ report = NoReport
    /\ errors = <<>>
    /\ exitcode = -1
    /\ cands = <<>>
    /\ cpos = 0
    /\ ctotal = 0
    /\ remote0 = Absent
    /\ remote = Absent
    /\ template = <<>>
    /\ force = FALSE
    /\ puts = <<>>
    /\ status = ""

\* the script is started: any arguments, any environment
Init ==
    /\ pc = "main"
    /\ mode \in {"full", "pr"}
    /\ diff_file \in {None, "", "pr.diff"}
    /\ provider \in Providers
    /\ arg_cred \in {None, "", "arg-cred"}
    /\ env_cred \in {None, "", "env-cred"}
    /\ sdk \in BOOLEAN
    /\ files = <<>>
    /\ Fresh

Gateway == AiCallExit \/ CallSdk \/ CallRest \/ CallRestNoToken \/ Respond

Chunked == ReviewChunkedStart \/ ChunkCall \/ MergeCall

Next ==
    \/ MainPRUnreadable \/ MainPREmpty \/ MainPRReview
    \/ MainNoFiles \/ MainSingle \/ MainChunked
    \/ Chunked
    \/ Gateway

Spec == Init /\ [][Next]_vars

\* the corpora of at most n entries with sizes in S, paths in order
Corpora(n, S) ==
    { [i \in 1..m |-> [path |-> i, size |-> f[i]]] :
        m \in 0..n, f \in [1..n -> S] }

\* sizes around the budget, an oversized one among them
ChunkedSizes == {CHUNK_SIZE \div 2, CHUNK_SIZE, 2 * CHUNK_SIZE}

\* review_chunked is called on any corpus
InitChunked ==
    /\ pc = "review_chunked"
    /\ mode = "full"
    /\ diff_file = None
    /\ provider \in Providers
    /\ arg_cred \in {None, "arg-cred"}
    /\ env_cred \in {None, "env-cred"}
    /\ sdk \in BOOLEAN
    /\ files \in Corpora(MaxChunkedFiles, ChunkedSizes)
    /\ Fresh

NextChunked == Chunked \/ Gateway

SpecChunked == InitChunked /\ [][NextChunked]_vars

SplitSizes == {0, 1, CHUNK_SIZE \div 2, CHUNK_SIZE - 1, CHUNK_SIZE,
               CHUNK_SIZE + 1}

\* split_into_chunks is called on any corpus
InitSplit ==
    /\ pc = "split_into_chunks"
    /\ mode = "full"
    /\ diff_file = None
    /\ provider = "gemini"
    /\ arg_cred = None
    /\ env_cred = None
    /\ sdk = FALSE
    /\ files \in Corpora(MaxFiles, SplitSizes)
    /\ Fresh

SplitCall ==
    /\ pc = "split_into_chunks"
    /\ chunks' = split_into_chunks(files)
    /\ split_invoked' = TRUE
    /\ pc' = "returned"
    /\ UNCHANGED <<walk_vars, sync_vars, mode, diff_file, provider, arg_cred, env_cred, sdk, diff,
                   files, collected, idx, partial_reviews, calls, net, report,
                   errors, exitcode>>

NextSplit == SplitCall

SpecSplit == InitSplit /\ [][NextSplit]_vars

\* the review variables of a process that runs no review
NoReview ==
    /\ mode = "full"
    /\ diff_file = None
    /\ provider = "gemini"
    /\ arg_cred = None
    /\ env_cred = None
    /\ sdk = FALSE
    /\ diff = Unread
    /\ files = <<>>
    /\ collected = FALSE
    /\ chunks = <<>>
    /\ split_invoked = FALSE
    /\ idx = 0
    /\ partial_reviews = <<>>
    /\ calls = <<>>
    /\ net = <<>>
    /\ report = NoReport
    /\ errors = <<>>
    /\ exitcode = -1

(***************************************************************************)
(* collect_files on its own, one candidate file at a time                  *)
(***************************************************************************)
\* most candidate files after the run of plain ones
MaxTail == 2

\* how many files of MAX_FILE_SIZE bytes reach MAX_TOTAL_SIZE
Full == MAX_TOTAL_SIZE \div MAX_FILE_SIZE

\* the candidate files that are tried beside the plain one: a small one, one
\* over the per-file ceiling, one that cannot be read, one that is not code
WalkFiles ==
    { PlainFile,
      [code |-> TRUE, sz |-> 1, readable |-> TRUE, clen |-> 1],
      [code |-> TRUE, sz |-> MAX_FILE_SIZE + 1, readable |-> TRUE,
       clen |-> MAX_FILE_SIZE + 1],
      [code |-> TRUE, sz |-> MAX_FILE_SIZE, readable |-> FALSE, clen |-> 0],
      [code |-> FALSE, sz |-> MAX_FILE_SIZE, readable |-> TRUE,
       clen |-> MAX_FILE_SIZE] }

UpTo(n, S) == UNION {[1..m -> S] : m \in 0..n}

\* the walks tried: at most one file, then no plain file or enough of them
\* to come within one file of MAX_TOTAL_SIZE or to reach it, then at most
\* MaxTail files
WalkTrees ==
    { [i \in 1..(Len(head) + p + Len(tail)) |->
         WithPath(IF i <= Len(head) THEN head[i]
                  ELSE IF i <= Len(head) + p THEN PlainFile
                  ELSE tail[i - Len(head) - p], i)] :
        head \in UpTo(1, WalkFiles), p \in {0, Full - 1, Full},
        tail \in UpTo(MaxTail, WalkFiles) }

\* collect_files is called on any walk
InitCollect ==
    /\ pc = "collect_files"
    /\ NoReview
    /\ cands \in WalkTrees
    /\ cpos = 0
    /\ ctotal = 0
    /\ remote0 = Absent
    /\ remote = Absent
    /\ template = <<>>
    /\ force = FALSE
    /\ puts = <<>>
    /\ status = ""

\* one turn of the loop, on the next candidate
CollectStep ==
    /\ pc = "collect_files"
    /\ cpos < Len(cands)
    /\ LET st == CollectLoop(<<cands[cpos + 1]>>, files, ctotal)
       IN  /\ files' = st.files
           /\ ctotal' = st.total
    /\ cpos' = cpos + 1
    /\ UNCHANGED <<pc, cands, sync_vars, mode, diff_file, provider, arg_cred,
                   env_cred, sdk, diff, collected, chunks, split_invoked, idx,
                   partial_reviews, calls, net, report, errors, exitcode>>

\* return files
CollectReturn ==
    /\ pc = "collect_files"
    /\ cpos = Len(cands)
    /\ collected' = TRUE
    /\ pc' = "collected"
    /\ UNCHANGED <<walk_vars, sync_vars, mode, diff_file, provider, arg_cred,
                   env_cred, sdk, diff, files, chunks, split_invoked, idx,
                   partial_reviews, calls, net, report, errors, exitcode>>

NextCollect == CollectStep \/ CollectReturn

SpecCollect == InitCollect /\ [][NextCollect]_vars

(***************************************************************************)
(* sync-workflows.py: sync_one                                             *)
(***************************************************************************)
\* longest workflow file, in lines
MaxLines == 2

\* A workflow file is the sequence of its lines; these are the lines tried.
Lines == {"# managed-by: code-review-hub v2",
          "# managed-by: code-review-hub v1",
          "name: ci  # managed-by: code-review-hub",
          "name: ci",
          "on: push"}

\* l.startswith(MANAGED_MARKER)
StartsWithMarker(l) ==
    l \in {"# managed-by: code-review-hub v2", "# managed-by: code-review-hub v1"}

\* MANAGED_MARKER in l
ContainsMarker(l) ==
    l \in {"# managed-by: code-review-hub v2", "# managed-by: code-review-hub v1",
           "name: ci  # managed-by: code-review-hub"}

Contents == UNION {[1..n -> Lines] : n \in 0..MaxLines}

\* MANAGED_MARKER in raw
HasMarker(raw) == \E i \in 1..Len(raw) : ContainsMarker(raw[i])

\* the lines that do not start with the marker, joined and hashed; the hash
\* is taken to tell any two texts apart
content_fingerprint(text) ==
    SelectSeq(text, LAMBDA l : ~StartsWithMarker(l))

\* how gh answers a GET: "ok" is the file or a 404, "error" is any other
\* non-zero exit, a timeout or an unparsable output (gh_api returns None)
GetOutcomes == {"ok", "error"}

\* get_remote_file: (sha, content, is_managed) or (None, None, False); the
\* sha of a file is modelled by its content, None by Absent
get_remote_file(rem, outcome) ==
    IF outcome = "ok" /\ rem # Absent
    THEN [sha |-> rem, content |-> rem, is_managed |-> HasMarker(rem)]
    ELSE [sha |-> Absent, content |-> Absent, is_managed |-> FALSE]

\* if sha and not is_managed and not force:
IsCustomSkip(r, f) == r.sha # Absent /\ ~r.is_managed /\ ~f

\* if sha and (is_managed or force):
IsExisting(r, f) == r.sha # Absent /\ (r.is_managed \/ f)

\* if content_fingerprint(existing) == content_fingerprint(content):
SameFingerprint(existing, content) ==
    content_fingerprint(existing) = content_fingerprint(content)

\* put_remote_file: the PUT request; "sha" is sent only when given
PutRequest(kind, content, sha) ==
    [kind |-> kind, content |-> content, sha |-> sha]

\* the contents API: a PUT without sha creates a file that is not there, a
\* PUT with the sha of the file that is there replaces it, any other PUT is
\* refused
PutAccepted(rem, req) ==
    IF rem = Absent THEN req.sha = Absent ELSE req.sha = rem

\* return "skipped-custom"
SyncSkipCustom ==
    /\ pc = "sync_one"
    /\ \E outcome \in GetOutcomes :
         IsCustomSkip(get_remote_file(remote, outcome), force)
    /\ status' = "skipped-custom"
    /\ pc' = "sync_done"
    /\ UNCHANGED <<remote0, remote, template, force, puts>>
    /\ UNCHANGED <<review_vars, walk_vars>>

\* return "up-to-date"
SyncUpToDate ==
    /\ pc = "sync_one"
    /\ \E outcome \in GetOutcomes :
         LET r == get_remote_file(remote, outcome)
         IN  /\ ~IsCustomSkip(r, force)
             /\ IsExisting(r, force)
             /\ SameFingerprint(r.content, template)
    /\ status' = "up-to-date"
    /\ pc' = "sync_done"
    /\ UNCHANGED <<remote0, remote, template, force, puts>>
    /\ UNCHANGED <<review_vars, walk_vars>>

\* put_remote_file(owner, repo, path, content, "Update ...", sha)
SyncUpdate ==
    /\ pc = "sync_one"
    /\ \E outcome \in GetOutcomes :
         LET r == get_remote_file(remote, outcome)
         IN  /\ ~IsCustomSkip(r, force)
             /\ IsExisting(r, force)
             /\ ~SameFingerprint(r.content, template)
             /\ puts' = Append(puts, PutRequest("Update", template, r.sha))
    /\ pc' = "put"
    /\ UNCHANGED <<remote0, remote, template, force, status>>
    /\ UNCHANGED <<review_vars, walk_vars>>

\* New file: put_remote_file(owner, repo, path, content, "Add ...")
SyncCreate ==
    /\ pc = "sync_one"
    /\ \E outcome \in GetOutcomes :
         LET r == get_remote_file(remote, outcome)
         IN  /\ ~IsCustomSkip(r, force)
             /\ ~IsExisting(r, force)
             /\ puts' = Append(puts, PutRequest("Add", template, Absent))
    /\ pc' = "put"
    /\ UNCHANGED <<remote0, remote, template, force, status>>
    /\ UNCHANGED <<review_vars, walk_vars>>

\* the PUT is answered: return "updated" / "created" if ok else "failed"
SyncPutDone ==
    /\ pc = "put"
    /\ \E outcome \in {"ok", "error"} :
         LET req == puts[Len(puts)]
             ok == outcome = "ok" /\ PutAccepted(remote, req)
         IN  /\ remote' = IF ok THEN req.content ELSE remote
             /\ status' = IF ~ok THEN "failed"
                          ELSE IF req.kind = "Update" THEN "updated"
                          ELSE "created"
    /\ pc' = "sync_done"
    /\ UNCHANGED <<remote0, template, force, puts>>
    /\ UNCHANGED <<review_vars, walk_vars>>

\* sync_one is called: any remote file or none, any content, force or not
InitSync ==
    /\ pc = "sync_one"
    /\ NoReview
    /\ cands = <<>>
    /\ cpos = 0
    /\ ctotal = 0
    /\ remote0 \in Contents \cup {Absent}
    /\ remote = remote0
    /\ template \in Contents
    /\ force \in BOOLEAN
    /\ puts = <<>>
    /\ status = ""

NextSync ==
    SyncSkipCustom \/ SyncUpToDate \/ SyncUpdate \/ SyncCreate \/ SyncPutDone

SpecSync == InitSync /\ [][NextSync]_vars

(***************************************************************************)
(* Properties                                                              *)
(***************************************************************************)
N == Len(chunks)

Oversized(chunk) == Len(chunk) = 1 /\ chunk[1].size > CHUNK_SIZE

\* C1: the chunks split_into_chunks returns, concatenated in chunk order and
\* in-chunk order, are exactly the corpus: no entry is dropped, duplicated or
\* moved.
C1_PartitionComplete ==
    pc = "returned" => Flatten(chunks) = files

C1_Witness ==
    /\ pc = "returned"
    /\ Len(files) = 3
    /\ Len(chunks) = 2
    /\ Len(chunks[1]) = 2

\* C2: every chunk split_into_chunks returns is within the budget or is one
\* single entry larger than the budget; an entry larger than the budget never
\* shares its chunk.
C2_BudgetRespected ==
    pc = "returned" =>
        \A c \in 1..Len(chunks) :
            /\ SumSizes(chunks[c]) <= CHUNK_SIZE \/ Oversized(chunks[c])
            /\ \A e \in 1..Len(chunks[c]) :
                   chunks[c][e].size > CHUNK_SIZE => Len(chunks[c]) = 1

C2_Witness ==
    /\ pc = "returned"
    /\ Len(chunks) = 3
    /\ Oversized(chunks[2])
    /\ SumSizes(chunks[1]) = CHUNK_SIZE
    /\ SumSizes(chunks[3]) > 0

Terminated == pc \in {"done", "crashed", "exit"}

\* the call reached the backend and the backend's answer was a failure
ProviderFailed(call) ==
    call.result.failed /\ call.result.detail \notin {"SystemExit", "token"}

\* C3: once review_chunked is over, a chunk call that failed has not kept the
\* other chunk calls from being issued, nor the merge call, whose input holds
\* one partial review per chunk, the failure-marked text of the failed chunk
\* among them.
C3_ChunkFailureIsolated ==
    \A k \in 1..Len(calls) :
        (Terminated /\ calls[k].site = "chunk" /\ ProviderFailed(calls[k])) =>
            /\ \A j \in 1..N :
                   \E c \in 1..Len(calls) :
                       /\ calls[c].site = "chunk"
                       /\ calls[c].system.chunk_num = j
            /\ \E m \in 1..Len(calls) :
                   /\ calls[m].site = "merge"
                   /\ Len(calls[m].user_text.sections) = N
                   /\ LET sec == calls[m].user_text.sections[calls[k].system.chunk_num]
                      IN  sec.review.failed /\ ~sec.review.raised

\* C4: a transport failure never leaves ai_call as an exception: whatever
\* the provider and the transport, the call gives back a text.
C4_NoExceptionOutOfGateway ==
    \A k \in 1..Len(calls) :
        calls[k].result.raised => calls[k].result.detail = "SystemExit"

\* C5: once main has collected a non-empty corpus of at most CHUNK_SIZE bytes,
\* split_into_chunks is never invoked and the gateway is called exactly once,
\* with the full-review template over the whole corpus; when the run is done
\* the report is the text of that call.
C5_SmallCorpusSingleShot ==
    (collected /\ files # <<>> /\ SumSizes(files) <= CHUNK_SIZE) =>
        /\ ~split_invoked
        /\ chunks = <<>>
        /\ Len(calls) = 1
        /\ calls[1].site = "single"
        /\ calls[1].system = SYSTEM_FULL
        /\ calls[1].user_text.files = files
        /\ Len(net) <= 1
        /\ pc = "done" => report = calls[1].result /\ ~report.raised

C5_Witness ==
    /\ pc = "done"
    /\ collected
    /\ SumSizes(files) = CHUNK_SIZE
    /\ Len(calls) = 1
    /\ Len(net) = 1
    /\ ~report.failed

\* C6: in review_chunked over N >= 1 chunks the calls are those for chunks
\* 1, 2, ..., N in this order and then the merge call; a call starts only
\* after every earlier one has returned, at most one request is in flight,
\* and a run that is done has made N + 1 calls.
C6_SequentialCalls ==
    (split_invoked /\ N >= 1) =>
        /\ Len(calls) <= N + 1
        /\ Len(net) <= Len(calls)
        /\ \A k \in 1..Len(calls) :
               /\ k <= N =>
                     /\ calls[k].site = "chunk"
                     /\ calls[k].system.name = "SYSTEM_CHUNK"
                     /\ calls[k].system.chunk_num = k
                     /\ calls[k].system.total_chunks = N
                     /\ calls[k].user_text.files = chunks[k]
               /\ k = N + 1 =>
                     /\ calls[k].site = "merge"
                     /\ calls[k].system.name = "SYSTEM_MERGE"
                     /\ calls[k].system.total_chunks = N
               /\ k < Len(calls) =>
                     /\ calls[k].result.detail # "pending"
                     /\ ~calls[k].result.raised
        /\ pc = "done" => Len(calls) = N + 1

C6_Witness ==
    /\ pc = "done"
    /\ N = 3
    /\ Oversized(chunks[2])
    /\ Len(calls) = 4
    /\ Len(net) = 4

AllWhitespace(s) == \A i \in 1..Len(s) : s[i] \in {" ", "\n"}

\* C7: in PR mode with a diff file whose content is empty or nothing but
\* whitespace, the report is the canned message, the run is over with status
\* 0, and the gateway was never called: no credential test, no request.
C7_EmptyDiffShortCircuit ==
    (mode = "pr" /\ Truthy(diff_file) /\ diff # Unread /\ AllWhitespace(diff)) =>
        /\ report = CANNED
        /\ calls = <<>>
        /\ net = <<>>
        /\ errors = <<>>
        /\ pc = "done"
        /\ exitcode = 0

C7_Witness ==
    /\ diff = <<" ", " ", " ", "\n">>
    /\ report = CANNED
    /\ arg_cred = None
    /\ env_cred = None

ConfigError == ~Truthy(arg_cred) /\ ~Truthy(env_cred)

\* C8: with the credential missing from both the parameter and the
\* environment no request is ever sent and the first gateway call ends the
\* process with a non-zero status and one diagnostic; the process ends so for
\* no other reason, and a request carries the parameter's credential
\* whenever the parameter is given, else the environment's.
C8_ConfigErrorFatal ==
    /\ ConfigError =>
           /\ net = <<>>
           /\ Len(calls) <= 1
           /\ (calls # <<>> /\ pc # "ai_call") =>
                  /\ pc = "exit"
                  /\ exitcode > 0
                  /\ Len(errors) = 1
                  /\ errors[1] \in {"Error: GEMINI_API_KEY not set",
                                    "Error: GCP_PROJECT_ID not set"}
    /\ (pc = "exit" /\ calls # <<>>) => ConfigError
    /\ \A k \in 1..Len(net) :
           /\ Truthy(net[k].cred)
           /\ net[k].cred = IF Truthy(arg_cred) THEN arg_cred ELSE env_cred

C8_Witness ==
    /\ pc = "exit"
    /\ exitcode = 1
    /\ Len(calls) = 1
    /\ calls[1].site = "chunk"
    /\ arg_cred = ""
    /\ env_cred = None

\* C9: a run started with --mode pr never collects files, never splits, and
\* calls the gateway at most once, with SYSTEM_PR.
C9_PRModeBypasses ==
    mode = "pr" =>
        /\ ~collected
        /\ ~split_invoked
        /\ Len(calls) <= 1
        /\ \A k \in 1..Len(calls) : calls[k].system = SYSTEM_PR

\* C10: a request whose text is longer than the context ceiling is sent
\* truncated, not as it was given; a text within the ceiling is sent unchanged.
C10_TruncatedOverCeiling ==
    \A k \in 1..Len(net) :
        IF TextLen(net[k].user_text) > ContextCeiling
        THEN net[k].sent # net[k].user_text
        ELSE net[k].sent = net[k].user_text

\* C11: when the remote workflow file exists without the marker and force is
\* not set, sync_one returns "skipped-custom" and issues no PUT; a PUT for a
\* file that exists is issued only if the file is managed or force is set,
\* and its fingerprint differs from the template's.
C11_OnlyManagedWritten ==
    /\ (remote0 # Absent /\ ~HasMarker(remote0) /\ ~force) =>
           /\ puts = <<>>
           /\ pc = "sync_done" => status = "skipped-custom"
    /\ (remote0 # Absent /\ puts # <<>>) =>
           /\ HasMarker(remote0) \/ force
           /\ content_fingerprint(remote0) # content_fingerprint(template)

RECURSIVE SumDisk(_)
\* the on-disk sizes of the collected files, added up
SumDisk(fs) ==
    IF fs = <<>> THEN 0 ELSE cands[fs[1].path].sz + SumDisk(Tail(fs))

\* after any number of candidates every collected file is within the
\* per-file ceiling and the running total, the sum of their on-disk sizes,
\* is within the aggregate ceiling
CeilingsKept ==
    pc \in {"collect_files", "collected"} =>
        /\ \A e \in 1..Len(files) :
               /\ cands[files[e].path].sz >= 0
               /\ cands[files[e].path].sz <= MAX_FILE_SIZE
        /\ ctotal = SumDisk(files)
        /\ ctotal <= MAX_TOTAL_SIZE

\* a candidate that would breach a ceiling leaves files and total as they
\* were; a readable code file that fits is collected and counted
BreachSkipped ==
    (pc = "collect_files" /\ cpos' = cpos + 1) =>
        LET c == cands[cpos + 1]
        IN  /\ (c.sz > MAX_FILE_SIZE \/ ctotal + c.sz > MAX_TOTAL_SIZE) =>
                   (files' = files /\ ctotal' = ctotal)
            /\ (c.code /\ c.readable /\ c.sz >= 0 /\ c.sz <= MAX_FILE_SIZE
                /\ ctotal + c.sz <= MAX_TOTAL_SIZE) =>
                   /\ files' = Append(files, [path |-> c.path, size |-> c.clen])
                   /\ ctotal' = ctotal + c.sz

\* C12: collect_files keeps both ceilings over every walk: every collected
\* file is at most MAX_FILE_SIZE on disk, the running total is at most
\* MAX_TOTAL_SIZE, a file that would breach either is skipped with the total
\* unchanged, and a later file that fits is still collected.
C12_CeilingsEnforced == []CeilingsKept /\ [][BreachSkipped]_vars

C12_Witness ==
    /\ pc = "collected"
    /\ Len(cands) = Full + 2
    /\ cands[Full + 1].sz = MAX_FILE_SIZE
    /\ cands[Full + 1].code
    /\ cands[Full + 1].readable
    /\ Len(files) = Full + 1
    /\ files[Full + 1].path = Full + 2
    /\ ctotal = MAX_TOTAL_SIZE - MAX_FILE_SIZE + 2

\* C13: when review_chunked makes its merge call, partial_reviews holds one
\* review per chunk in chunk order; section i of the merge input is headed
\* "Partial Review i/total" with the chunk_num and total_chunks of the chunk
\* call that returned its text, and the merge instruction's total_chunks is
\* the number of chunks.
C13_MergeLabelsMatch ==
    \A k \in 1..Len(calls) :
        calls[k].site = "merge" =>
            LET sections == calls[k].user_text.sections
            IN  /\ k = N + 1
                /\ Len(partial_reviews) = N
                /\ Len(sections) = N
                /\ calls[k].system.name = "SYSTEM_MERGE"
                /\ calls[k].system.total_chunks = N
                /\ \A i \in 1..N :
                       /\ calls[i].site = "chunk"
                       /\ calls[i].user_text.files = chunks[i]
                       /\ partial_reviews[i] = calls[i].result
                       /\ sections[i].review = calls[i].result
                       /\ sections[i].num = i
                       /\ sections[i].num = calls[i].system.chunk_num
                       /\ sections[i].total = N
                       /\ sections[i].total = calls[i].system.total_chunks

C13_Witness ==
    /\ pc = "ai_call"
    /\ N = 3
    /\ Len(calls) = 4
    /\ calls[4].site = "merge"
    /\ calls[1].result.failed
    /\ ~calls[2].result.failed
    /\ calls[4].user_text.sections[1].review.failed
    /\ ~calls[4].user_text.sections[2].review.failed

\* C14: split_into_chunks is greedy and emits no empty chunk: a chunk is
\* closed only when the next entry would take it over CHUNK_SIZE, so each
\* chunk's size plus the size of the first entry of the chunk after it is
\* over CHUNK_SIZE; every chunk has at least one entry; and no chunks are
\* returned exactly when the corpus is empty.
C14_GreedyNoEmptyChunk ==
    pc = "returned" =>
        /\ \A c \in 1..Len(chunks) : Len(chunks[c]) >= 1
        /\ \A c \in 1..(Len(chunks) - 1) :
               /\ chunks[c + 1] # <<>>
               /\ SumSizes(chunks[c]) + chunks[c + 1][1].size > CHUNK_SIZE
        /\ (chunks = <<>>) <=> (files = <<>>)

C14_Witness ==
    /\ pc = "returned"
    /\ Len(chunks) = 2
    /\ Len(chunks[1]) = 2
    /\ SumSizes(chunks[1]) = CHUNK_SIZE
    /\ chunks[2][1].size = 1

====
